---- MODULE Spec2Model ----
(***************************************************************************)
(* Accord interview system (src/app.py): the account store, the            *)
(* application record store, the lifecycle handlers (apply, hr_assign,     *)
(* hod_result), the notification helpers and the spreadsheet export.       *)
(*                                                                         *)
(* Text values are sequences of character tokens, so that strip(), lower() *)
(* and re.sub(r'\D', '', ...) are computed rather than assumed.  A token   *)
(* is one character, or a run of lower-case non-space characters that the  *)
(* normalisers leave alone (such as the seeded HR address).                *)
(***************************************************************************)
EXTENDS Integers, Sequences, FiniteSets, TLC

VARIABLES
    users,      \* table user: sequence of rows, row i has id i
    apps,       \* table application: sequence of rows, row i has id i
    session,    \* per browser: the Flask session, NoSession when cleared
    last,       \* the response to the latest request
    now,        \* what datetime.utcnow() returns, in seconds since day 0
    pending     \* per worker: the apply request it is in the middle of

vars == <<users, apps, session, last, now, pending>>

\* Python None / SQL NULL, one per type of value: a text, a row id (ids start
\* at 1), a role name.
None == <<"None">>
NoId == 0
NoRole == "None"

\* An empty Flask session (no 'user_id' key).
NoSession == [user_id |-> NoId, role |-> NoRole]

-----------------------------------------------------------------------------
(* Bounds of the model *)

MaxUsers == 3
MaxApps == 1

\* The days of the model are day 0 (2024-01-01) to day MaxDay.
MaxDay == 1

\* One browser: requests are handled one at a time and a session belongs to
\* the browser that holds its cookie.
Clients == {"browser"}

\* The threads of the server that handle requests to apply side by side.
Workers == {"w1", "w2"}

\* A worker that is in the middle of no request.
Idle == [stage |-> "idle"]

\* timedelta(days=1), in seconds
SecondsPerDay == 86400

\* The readings of the clock: the first and the last second of each day.
Times == {d * SecondsPerDay + s : d \in 0..MaxDay, s \in {0, SecondsPerDay - 1}}

-----------------------------------------------------------------------------
(* Text helpers: str.strip, str.lower, re.sub(r'\D', '', s) *)

Space == " "

\* Characters of Unicode category Nd that occur in the inputs: Python's \D on a
\* str pattern is the complement of these, not of [0-9] alone.
DigitChars == {"0", "1", "2", "3", "4", "5", "6", "7", "8", "9", "U+0663"}

IsDigit(ch) == ch \in DigitChars

IsSpace(ch) == ch = Space

RECURSIVE lstrip(_)
lstrip(s) ==
    IF s = <<>> THEN s
    ELSE IF IsSpace(Head(s)) THEN lstrip(Tail(s)) ELSE s

RECURSIVE rstrip(_)
rstrip(s) ==
    IF s = <<>> THEN s
    ELSE IF IsSpace(s[Len(s)]) THEN rstrip(SubSeq(s, 1, Len(s) - 1)) ELSE s

strip(s) == rstrip(lstrip(s))

LowerChar(ch) ==
    CASE ch = "A" -> "a"
      [] ch = "B" -> "b"
      [] ch = "H" -> "h"
      [] ch = ".PDF" -> ".pdf"
      [] OTHER -> ch

lower(s) == [i \in 1..Len(s) |-> LowerChar(s[i])]

sub_non_digits_Keep(s) == s

\* re.sub(r'\D', '', s): every non-digit character is removed.
sub_non_digits(s) == SelectSeq(s, IsDigit)

\* Python truthiness of a str / None: '' and None are falsy.
Truthy(s) == s # None /\ s # <<>>

\* `x or default`
OrElse(s, default) == IF Truthy(s) THEN s ELSE default

Repeat(ch, n) == [i \in 1..n |-> ch]

-----------------------------------------------------------------------------
(* Program constants *)

\* len(contact) < 10 is rejected
MinContactLen == 10

\* MAX_FILE_SIZE = 5 * 1024 * 1024
MAX_FILE_SIZE == 5242880

ALLOWED_EXT == {<<".pdf">>, <<".doc">>, <<".docx">>}

\* hod_result accepts exactly these
OutcomeStatuses == {"Interviewed", "Rejected", "Selected", "OnHold"}

\* the statuses the column comment of Application.status declares
DeclaredStatuses ==
    {"Applied", "Assigned", "Interviewed", "OnHold", "Rejected", "Selected",
     "Offered", "Joined"}

HrEmail == <<"hr@accordhospitals.com">>
HrPassword == <<"ChangeMe123!">>

-----------------------------------------------------------------------------
(* Password hashing (werkzeug): the hash is opaque, checking a password    *)
(* against it succeeds exactly for the password it was generated from.     *)

generate_password_hash(pw) == <<"hash-of">> \o pw

check_password_hash(h, pw) == h = generate_password_hash(pw)

-----------------------------------------------------------------------------
(* Notification helpers *)

\* What the environment does to one notification attempt: whether the template
\* renders and whether the SMTP conversation goes through.
MailEnv == [render : BOOLEAN, smtp : BOOLEAN]

MailOk == [render |-> TRUE, smtp |-> TRUE]

\* send_email: every failure is caught inside and turned into False.
send_email(to, html, cc, env) ==
    [to |-> to, cc |-> cc, html |-> html, sent |-> env.smtp, raised |-> FALSE]

render_and_send_Raising(template_name, to_email, cc, ctx, env) ==
    [to |-> to_email, cc |-> cc,
     html |-> [template |-> template_name, ctx |-> ctx],
     sent |-> env.render /\ env.smtp, raised |-> ~env.render]

\* render_and_send: a render failure falls back to a fixed body.  ctx is the
\* template context, read when the call is made.
render_and_send(template_name, to_email, cc, ctx, env) ==
    send_email(to_email,
               IF env.render
               THEN [template |-> template_name, ctx |-> ctx]
               ELSE [template |-> "fallback", ctx |-> <<>>],
               cc, env)

\* The outcome a handler ends with after its notifications: an exception out
\* of the dispatcher would end the request as a server error.
AfterMails(mails, outcome) ==
    IF \E i \in 1..Len(mails) : mails[i].raised THEN "500" ELSE outcome

-----------------------------------------------------------------------------
(* The account store *)

\* Query.filter_by(...).first(): of the ids of the rows that match, the
\* lowest; NoId when no row matches.
First(matching) ==
    IF matching = {} THEN NoId
    ELSE CHOOSE i \in matching : \A j \in matching : i <= j

\* User.query.filter_by(email=email).first()
FindUserByEmail(email) ==
    First({i \in 1..Len(users) : users[i].email = email})

\* User.query.get(id)
GetUser(id) == IF id \in 1..Len(users) THEN id ELSE NoId

\* hr_user = User.query.filter_by(role='HR').first();
\* hr_email = hr_user.email if hr_user else None
hr_email ==
    LET hr_user == First({i \in 1..Len(users) : users[i].role = "HR"})
    IN  IF hr_user = NoId THEN None ELSE users[hr_user].email

\* create_tables: the HR account is provisioned when absent.
HrRow ==
    [id |-> 1, name |-> <<"HR Admin">>, email |-> HrEmail,
     password_hash |-> generate_password_hash(HrPassword),
     role |-> "HR", is_active |-> TRUE]

\* No workbook is part of the response.
NoBook == [status |-> "none"]

\* The status the application named by a request to hr_assign or hod_result
\* has when the request arrives.
StatusBefore(op, id) ==
    IF op \in {"hr_assign", "hod_result"} /\ id \in 1..Len(apps)
    THEN apps[id].status
    ELSE NoRole

\* The response: the handler, the message it flashes, the row id the request
\* named (NoId when it names none), the notifications attempted, and for a
\* request on an application the status it found.
Respond(op, outcome, id, mails) ==
    [op |-> op, outcome |-> outcome, id |-> id, mails |-> mails,
     was |-> StatusBefore(op, id), book |-> NoBook]

\* login_required(role): None when the request reaches the handler, else the
\* refusal.
Admitted == "admitted"

login_required(c, role) ==
    IF session[c].user_id = NoId THEN "login_required"
    ELSE IF role # NoRole /\ session[c].role # role THEN "Access denied"
    ELSE Admitted

\* register (POST)
Register(name_raw, email_raw, password_raw) ==
    LET name == strip(name_raw)
        email == lower(strip(email_raw))
        password == strip(password_raw)
        outcome ==
            IF ~Truthy(email) \/ ~Truthy(password)
            THEN "Email and password required"
            ELSE IF FindUserByEmail(email) # NoId
            THEN "Email already registered"
            ELSE "Registered. Await HR approval."
    IN  /\ users' =
             IF outcome = "Registered. Await HR approval."
             THEN Append(users,
                    [id |-> Len(users) + 1, name |-> name, email |-> email,
                     password_hash |-> generate_password_hash(password),
                     role |-> "HOD", is_active |-> FALSE])
             ELSE users
        /\ last' = Respond("register", outcome, NoId, <<>>)
        /\ UNCHANGED <<apps, session, now, pending>>

PendingApproval_AnyRole(user) == ~user.is_active

\* The gate of login: a HOD whose account is not active is turned away.
PendingApproval(user) == user.role = "HOD" /\ ~user.is_active

LoginOutcome(email, password) ==
    LET user == FindUserByEmail(email)
    IN  IF user = NoId THEN "Invalid credentials"
        ELSE IF ~check_password_hash(users[user].password_hash, password)
        THEN "Invalid credentials"
        ELSE IF PendingApproval(users[user])
        THEN "HOD account pending HR approval"
        ELSE "logged_in"

\* login (POST)
Login(c, email_raw, password_raw) ==
    LET email == lower(strip(email_raw))
        password == strip(password_raw)
        user == FindUserByEmail(email)
        outcome == LoginOutcome(email, password)
    IN  /\ session' =
             IF outcome = "logged_in"
             THEN [session EXCEPT
                     ![c] = [user_id |-> users[user].id, role |-> users[user].role]]
             ELSE session
        /\ last' = Respond("login", outcome, NoId, <<>>)
        /\ UNCHANGED <<users, apps, now, pending>>

\* logout
Logout(c) ==
    /\ session' = [session EXCEPT ![c] = NoSession]
    /\ last' = Respond("logout", "Logged out", NoId, <<>>)
    /\ UNCHANGED <<users, apps, now, pending>>

\* hr_approve_hod
HrApproveHod(c, hod_id) ==
    LET denied == login_required(c, "HR")
        hod == GetUser(hod_id)
        outcome ==
            IF denied # Admitted THEN denied
            ELSE IF hod = NoId THEN "HOD not found"
            ELSE IF users[hod].role # "HOD" THEN "HOD not found"
            ELSE "HOD approved"
    IN  /\ users' =
             IF outcome = "HOD approved"
             THEN [users EXCEPT ![hod_id].is_active = TRUE]
             ELSE users
        /\ last' = Respond("hr_approve_hod", outcome, hod_id, <<>>)
        /\ UNCHANGED <<apps, session, now, pending>>

\* hr_reset_password
HrResetPassword(c, email_raw, new_password_raw, env) ==
    LET denied == login_required(c, "HR")
        email == lower(strip(email_raw))
        new_pw == strip(new_password_raw)
        hod == First({i \in 1..Len(users) :
                        users[i].email = email /\ users[i].role = "HOD"})
        outcome ==
            IF denied # Admitted THEN denied
            ELSE IF ~Truthy(email) \/ ~Truthy(new_pw)
            THEN "Provide email and new password"
            ELSE IF hod = NoId THEN "HOD not found"
            ELSE "Password reset and email sent"
        done == outcome = "Password reset and email sent"
        mails ==
            IF done
            THEN <<render_and_send("status_update.html", users[hod].email, None,
                                   <<"password reset">>, env)>>
            ELSE <<>>
    IN  /\ users' =
             IF done
             THEN [users EXCEPT
                     ![hod].password_hash = generate_password_hash(new_pw)]
             ELSE users
        /\ mails = <<>> => env = MailOk
        /\ last' = Respond("hr_reset_password", AfterMails(mails, outcome),
                           hod, mails)
        /\ UNCHANGED <<apps, session, now, pending>>

-----------------------------------------------------------------------------
(* The application record store *)

\* int(s) of Python: surrounding whitespace and one sign are accepted, and
\* every decimal digit of Unicode counts.  IntRaises(s) when int(s) raises
\* ValueError.

DigitValue(ch) ==
    CASE ch = "0" -> 0 [] ch = "1" -> 1 [] ch = "2" -> 2 [] ch = "3" -> 3
      [] ch = "4" -> 4 [] ch = "5" -> 5 [] ch = "6" -> 6 [] ch = "7" -> 7
      [] ch = "8" -> 8 [] ch = "9" -> 9 [] ch = "U+0663" -> 3

RECURSIVE DigitsValue(_)
DigitsValue(s) ==
    IF s = <<>> THEN 0
    ELSE 10 * DigitsValue(SubSeq(s, 1, Len(s) - 1)) + DigitValue(s[Len(s)])

Signed(t) == t # <<>> /\ Head(t) \in {"-", "+"}

IntRaises(text) ==
    LET t == strip(text)
        digits == IF Signed(t) THEN Tail(t) ELSE t
    IN  digits = <<>> \/ \E i \in 1..Len(digits) : ~IsDigit(digits[i])

int(text) ==
    LET t == strip(text)
        digits == IF Signed(t) THEN Tail(t) ELSE t
    IN  IF Signed(t) /\ Head(t) = "-" THEN 0 - DigitsValue(digits)
        ELSE DigitsValue(digits)

GetApp_OnlyApplied(app_id) ==
    IF app_id \in 1..Len(apps) /\ apps[app_id].status = "Applied"
    THEN app_id
    ELSE NoId

\* Application.query.get(app_id)
GetApp(app_id) == IF app_id \in 1..Len(apps) THEN app_id ELSE NoId

\* allowed_file(filename): the extension, lower-cased, is one of ALLOWED_EXT
allowed_file(ext) == lower(ext) \in ALLOWED_EXT

\* Application.query.filter_by(email=email).first()
EmailTaken(email) ==
    First({i \in 1..Len(apps) : apps[i].email = email}) # NoId

ContactTaken_Unchecked(contact) == FALSE

\* Application.query.filter_by(contact=contact).first()
ContactTaken(contact) ==
    First({i \in 1..Len(apps) : apps[i].contact = contact}) # NoId

\* The checks of apply in the order the handler makes them; "insert" when the
\* form gets as far as the insert.
ApplyCheck(form) ==
    LET name == strip(form.name)
        address == strip(form.address)
        contact == sub_non_digits(strip(form.contact))
        email == OrElse(lower(strip(form.email)), None)
    IN  IF \/ ~Truthy(name) \/ ~Truthy(address) \/ ~Truthy(contact)
           \/ Len(contact) < MinContactLen
        THEN "Name, address and valid 10-digit contact are required."
        ELSE IF Truthy(email) /\ EmailTaken(email)
        THEN "You already applied with this email."
        ELSE IF ContactTaken(contact)
        THEN "You already applied with this contact number."
        ELSE IF form.resume.present /\ ~allowed_file(form.resume.ext)
        THEN "Resume must be pdf/doc/docx"
        ELSE IF form.resume.present /\ form.resume.size > MAX_FILE_SIZE
        THEN "Resume exceeds 5MB"
        ELSE "insert"

NewApplication_StatusFromForm(form) ==
    [id |-> Len(apps) + 1,
     name |-> strip(form.name),
     address |-> strip(form.address),
     contact |-> sub_non_digits(strip(form.contact)),
     email |-> OrElse(lower(strip(form.email)), None),
     academic_json |-> form.academic_json,
     professional_json |-> form.professional_json,
     family_json |-> form.family_json,
     department |-> OrElse(strip(form.department), <<>>),
     resume_filename |->
        IF form.resume.present THEN <<"utcnow_">> \o form.resume.ext ELSE None,
     status |-> IF Truthy(form.email) THEN "Assigned" ELSE "Applied",
     assigned_hod_id |-> NoId,
     applied_at |-> now]

\* new_app = Application(...): status, assigned_hod_id and applied_at take
\* the column defaults.
NewApplication(form) ==
    [id |-> Len(apps) + 1,
     name |-> strip(form.name),
     address |-> strip(form.address),
     contact |-> sub_non_digits(strip(form.contact)),
     email |-> OrElse(lower(strip(form.email)), None),
     academic_json |-> form.academic_json,
     professional_json |-> form.professional_json,
     family_json |-> form.family_json,
     department |-> OrElse(strip(form.department), <<>>),
     resume_filename |->
        IF form.resume.present THEN <<"utcnow_">> \o form.resume.ext ELSE None,
     status |-> "Applied",
     assigned_hod_id |-> NoId,
     applied_at |-> now]

\* The two notifications of apply, sent after the commit.
ApplyMails(new_app, envs) ==
    (IF Truthy(new_app.email)
     THEN <<render_and_send("candidate_applied.html", new_app.email, None,
                            new_app.name, envs[1])>>
     ELSE <<>>)
    \o
    (IF Truthy(hr_email)
     THEN <<render_and_send("candidate_applied.html", hr_email, None,
                            new_app.name, envs[2])>>
     ELSE <<>>)

\* apply (POST)
Apply(form, envs) ==
    LET check == ApplyCheck(form)
        new_app == NewApplication(form)
        mails == IF check = "insert" THEN ApplyMails(new_app, envs) ELSE <<>>
        outcome ==
            IF check = "insert"
            THEN AfterMails(mails, "Application submitted.")
            ELSE check
    IN  /\ mails = <<>> => envs = <<MailOk, MailOk>>
        /\ Len(mails) = 1 => envs[IF Truthy(new_app.email) THEN 2 ELSE 1] = MailOk
        /\ apps' = IF check = "insert" THEN Append(apps, new_app) ELSE apps
        /\ last' = Respond("apply", outcome, NoId, mails)
        /\ UNCHANGED <<users, session, now, pending>>

UniqueViolation_ContactUnique(new_app) == ContactTaken(new_app.contact)

\* db.session.commit() of apply raises IntegrityError: never, the columns
\* contact and email of Application carry no unique constraint.
UniqueViolation(new_app) == FALSE

\* apply (POST) up to its insert, in worker w: the checks, made on the table
\* as it is now.  A request that passes them goes on to ApplyInsert; between
\* the two, other workers run.
ApplyChecks(w, form) ==
    LET check == ApplyCheck(form)
    IN  /\ pending[w] = Idle
        /\ IF check = "insert"
           THEN /\ pending' = [pending EXCEPT
                                 ![w] = [stage |-> "checked", form |-> form]]
                /\ UNCHANGED last
           ELSE /\ last' = Respond("apply", check, NoId, <<>>)
                /\ UNCHANGED pending
        /\ UNCHANGED <<users, apps, session, now>>

\* apply (POST) from its insert on, in worker w: the row is added to the
\* table as it is by then, and the mails are sent.
ApplyInsert(w, envs) ==
    /\ pending[w] # Idle
    /\ LET new_app == NewApplication(pending[w].form)
           raised == UniqueViolation(new_app)
           mails == IF raised THEN <<>> ELSE ApplyMails(new_app, envs)
       IN  /\ mails = <<>> => envs = <<MailOk, MailOk>>
           /\ Len(mails) = 1 => envs[IF Truthy(new_app.email) THEN 2 ELSE 1] = MailOk
           /\ apps' = IF raised THEN apps ELSE Append(apps, new_app)
           /\ last' = Respond("apply",
                              IF raised THEN "500"
                              ELSE AfterMails(mails, "Application submitted."),
                              NoId, mails)
    /\ pending' = [pending EXCEPT ![w] = Idle]
    /\ UNCHANGED <<users, session, now>>

\* hr_assign
HrAssign(c, app_id, hod_id, env) ==
    LET denied == login_required(c, "HR")
        app_row == GetApp(app_id)
        check ==
            IF denied # Admitted THEN denied
            ELSE IF app_row = NoId THEN "Application not found"
            ELSE IF ~Truthy(hod_id) THEN "Select HOD"
            ELSE IF IntRaises(hod_id) THEN "500"
            ELSE "commit"
        committed ==
            [apps EXCEPT ![app_row].assigned_hod_id = int(hod_id),
                         ![app_row].status = "Assigned"]
        hod == GetUser(int(hod_id))
        mails ==
            IF check = "commit" /\ hod # NoId
            THEN <<render_and_send("hod_assignment.html", users[hod].email,
                                   hr_email,
                                   [app_id |-> app_row,
                                    status |-> committed[app_row].status],
                                   env)>>
            ELSE <<>>
        outcome ==
            IF check = "commit"
            THEN AfterMails(mails, "Assigned and HOD notified")
            ELSE check
    IN  /\ mails = <<>> => env = MailOk
        /\ apps' = IF check = "commit" THEN committed ELSE apps
        /\ last' = Respond("hr_assign", outcome, app_id, mails)
        /\ UNCHANGED <<users, session, now, pending>>

\* request.form.get('status') when the field is absent
MissingStatus == "<missing>"

\* status not in ('Interviewed', 'Rejected', 'Selected', 'OnHold')
InvalidStatus_Declared(status) == status \notin DeclaredStatuses

InvalidStatus_OnlyMissing(status) == status = MissingStatus

InvalidStatus(status) == status \notin OutcomeStatuses

\* not app_row or app_row.assigned_hod_id != session.get('user_id')
NotAssignedToCaller_AnyHod(app_row, user_id) ==
    app_row = NoId \/ apps[app_row].assigned_hod_id = NoId

NotAssignedToCaller_MissingOnly(app_row, user_id) == app_row = NoId

NotAssignedToCaller(app_row, user_id) ==
    app_row = NoId \/ apps[app_row].assigned_hod_id # user_id

\* hod_result
HodResult(c, app_id, status, env) ==
    LET denied == login_required(c, "HOD")
        app_row == GetApp(app_id)
        check ==
            IF denied # Admitted THEN denied
            ELSE IF InvalidStatus(status) THEN "Invalid status"
            ELSE IF NotAssignedToCaller(app_row, session[c].user_id)
            THEN "Not assigned to you"
            ELSE "commit"
        committed == [apps EXCEPT ![app_row].status = status]
        mails ==
            IF check = "commit" /\ Truthy(committed[app_row].email)
            THEN <<render_and_send("status_update.html", committed[app_row].email,
                                   hr_email,
                                   [app_id |-> app_row,
                                    status |-> committed[app_row].status],
                                   env)>>
            ELSE <<>>
        outcome ==
            IF check = "commit"
            THEN AfterMails(mails, "Status updated and candidate notified")
            ELSE check
    IN  /\ mails = <<>> => env = MailOk
        /\ apps' = IF check = "commit" THEN committed ELSE apps
        /\ last' = Respond("hod_result", outcome, app_id, mails)
        /\ UNCHANGED <<users, session, now, pending>>

-----------------------------------------------------------------------------
(* Stored sub-record payloads: the text of a JSON document *)

\* The text '' (falsy), a text json.loads rejects, or the text of a document.
EmptyText == [text |-> "empty"]
GarbageText == [text |-> "garbage"]
JsonText(doc) == [text |-> "json", doc |-> doc]

JList(items) == [t |-> "list", items |-> items]
JDict(f) == [t |-> "dict", f |-> f]

JScalar(kind) == [t |-> kind]
JStr(chars) == [t |-> "str", chars |-> chars]

\* '[]', the default of request.form.get('academic_json', '[]')
DefaultJson == JsonText(JList(<<>>))

\* json.loads(text or "[]") inside try/except: the document, [] when the text
\* is rejected.
LoadsOrEmpty(text) ==
    IF text = EmptyText THEN JList(<<>>)
    ELSE IF text.text = "garbage" THEN JList(<<>>)
    ELSE text.doc

\* if isinstance(x, dict): x = [x]
WrapDict(doc) == IF doc.t = "dict" THEN JList(<<doc>>) ELSE doc

\* What `for r in x` iterates over: the items of a list, the characters of a
\* string.  Any other value is not iterable.
Iterable(doc) == doc.t \in {"list", "str"}

ItemsOf(doc) ==
    IF doc.t = "list" THEN doc.items
    ELSE [k \in 1..Len(doc.chars) |-> JStr(<<doc.chars[k]>>)]

\* r.get(key, "")
Get(r, key) == IF key \in DOMAIN r.f THEN r.f[key] ELSE ""

AcademicCols == <<"sr", "qualification", "college", "year", "grade">>
ProfessionalCols == <<"sr", "company", "designation", "tenure", "reason">>
FamilyCols == <<"sr", "name", "relation", "age", "occupation">>

EntryRow_SrAsParent(a, r, cols) ==
    <<Get(r, "sr")>> \o [k \in 1..Len(cols) |-> Get(r, cols[k])]

\* [a.id, r.get("sr",""), r.get(...), ...]
EntryRow(a, r, cols) == <<a.id>> \o [k \in 1..Len(cols) |-> Get(r, cols[k])]

\* The rows one record adds to a secondary sheet, and whether building them
\* raises: iterating a value that is not iterable, or calling .get on an item
\* that is not a dict.
SubRows(a, text, cols) ==
    LET doc == WrapDict(LoadsOrEmpty(text))
        items == IF Iterable(doc) THEN ItemsOf(doc) ELSE <<>>
    IN  [raised |-> ~Iterable(doc) \/ \E k \in 1..Len(items) : items[k].t # "dict",
         rows |-> [k \in 1..Len(items) |->
                     IF items[k].t = "dict" THEN EntryRow(a, items[k], cols)
                     ELSE <<>>]]

\* hod = User.query.filter_by(id=a.assigned_hod_id).first();
\* hod_name = hod.name if hod else ""
HodName(a) ==
    IF GetUser(a.assigned_hod_id) = NoId THEN <<>>
    ELSE users[a.assigned_hod_id].name

\* The row of sheet Applications
ApplicationRow(a) ==
    [id |-> a.id, name |-> a.name, address |-> a.address, contact |-> a.contact,
     email |-> a.email, department |-> a.department, status |-> a.status,
     hod_name |-> HodName(a), resume_filename |-> a.resume_filename]

RECURSIVE Flatten(_)
Flatten(seqs) == IF seqs = <<>> THEN <<>> ELSE Head(seqs) \o Flatten(Tail(seqs))

\* The workbook built from the rows given, in their order: `for a in apps`
\* of export_excel, export_zip and export_filtered.
BuildBook(rows) ==
    LET acad == [i \in 1..Len(rows) |-> SubRows(rows[i], rows[i].academic_json, AcademicCols)]
        prof == [i \in 1..Len(rows) |->
                   SubRows(rows[i], rows[i].professional_json, ProfessionalCols)]
        fam == [i \in 1..Len(rows) |-> SubRows(rows[i], rows[i].family_json, FamilyCols)]
    IN  IF \E i \in 1..Len(rows) : acad[i].raised \/ prof[i].raised \/ fam[i].raised
        THEN [status |-> "raised"]
        ELSE [status |-> "saved",
              Applications |-> [i \in 1..Len(rows) |-> ApplicationRow(rows[i])],
              Academic |-> Flatten([i \in 1..Len(rows) |-> acad[i].rows]),
              Professional |-> Flatten([i \in 1..Len(rows) |-> prof[i].rows]),
              Family |-> Flatten([i \in 1..Len(rows) |-> fam[i].rows])]

\* query.order_by(Application.applied_at.asc()).all(): the rows given (a set
\* of ids) in an order of ascending applied_at; SQL leaves the order of rows
\* with equal applied_at open, so every such order is a result.
order_by_applied_at(ids) ==
    LET n == Cardinality(ids)
        Ascending(q) ==
            /\ \A k \in 1..n : q[k] \in ids
            /\ \A k \in 1..(n - 1) :
                  apps[q[k]].applied_at <= apps[q[k + 1]].applied_at
    IN  {[k \in 1..n |-> apps[q[k]]] :
            q \in {p \in [1..n -> ids] :
                      /\ \A i, j \in 1..n : i # j => p[i] # p[j]
                      /\ Ascending(p)}}

\* export_excel: every record, oldest first
ExportExcel(c) ==
    \E rows \in order_by_applied_at(1..Len(apps)) :
    LET denied == login_required(c, "HR")
        book == BuildBook(rows)
    IN  /\ last' =
             IF denied # Admitted THEN Respond("export_excel", denied, NoId, <<>>)
             ELSE IF book.status = "raised"
             THEN Respond("export_excel", "500", NoId, <<>>)
             ELSE [Respond("export_excel", "send_file", NoId, <<>>)
                     EXCEPT !.book = book]
        /\ UNCHANGED <<users, apps, session, now, pending>>

\* The texts strptime(..., "%Y-%m-%d") reads as a date: entry d + 1 is day d.
DateTokens == <<"2024-01-01", "2024-01-02", "2024-01-03", "2024-01-04">>

\* datetime.strptime(text, "%Y-%m-%d") raises ValueError
StrptimeRaises(text) ==
    ~(Len(text) = 1 /\ \E k \in 1..Len(DateTokens) : DateTokens[k] = text[1])

\* datetime.strptime(text, "%Y-%m-%d"): midnight at the start of the day
strptime(text) ==
    (CHOOSE k \in 1..Len(DateTokens) : DateTokens[k] = text[1]) * SecondsPerDay
        - SecondsPerDay

InRange_UntilMidnightOfToDate(applied_at, start_dt, end_dt) ==
    applied_at >= start_dt /\ applied_at <= end_dt - SecondsPerDay

\* Application.applied_at >= start_dt, Application.applied_at < end_dt
InRange(applied_at, start_dt, end_dt) ==
    applied_at >= start_dt /\ applied_at < end_dt

\* q.filter_by(status=status): the text of the request against the column
StatusIs(a, status) == Len(status) = 1 /\ a.status = status[1]

\* The checks of export_filtered before its query; "query" when it gets as
\* far as the query.
FilterCheck(c, from_date_str, to_date_str) ==
    LET denied == login_required(c, "HR")
    IN  IF denied # Admitted THEN denied
        ELSE IF ~Truthy(from_date_str) \/ ~Truthy(to_date_str)
        THEN "Please select From and To dates."
        ELSE IF StrptimeRaises(from_date_str) \/ StrptimeRaises(to_date_str)
        THEN "Invalid date format."
        ELSE "query"

\* The ids of the rows the query of export_filtered selects
Filtered(from_date_str, to_date_str, status) ==
    LET start_dt == strptime(from_date_str)
        end_dt == strptime(to_date_str) + SecondsPerDay
    IN  {i \in 1..Len(apps) :
            /\ InRange(apps[i].applied_at, start_dt, end_dt)
            /\ Truthy(status) => StatusIs(apps[i], status)}

\* fname = f"applications_{from_date_str}_to_{to_date_str}{safe_status}.xlsx":
\* the parts of the name that vary
DownloadName(from_date_str, to_date_str, status) ==
    <<from_date_str, to_date_str, status>>

\* export_filtered
ExportFiltered(c, from_raw, to_raw, status_raw) ==
    LET from_date_str == strip(from_raw)
        to_date_str == strip(to_raw)
        status == strip(status_raw)
        check == FilterCheck(c, from_date_str, to_date_str)
        ids == IF check = "query"
               THEN Filtered(from_date_str, to_date_str, status)
               ELSE {}
    IN  \E rows \in order_by_applied_at(ids) :
        LET book == BuildBook(rows)
        IN  /\ last' =
                 IF check # "query"
                 THEN Respond("export_filtered", check, NoId, <<>>)
                 ELSE IF book.status = "raised"
                 THEN Respond("export_filtered", "500", NoId, <<>>)
                 ELSE [Respond("export_filtered", "send_file", NoId, <<>>)
                         EXCEPT !.book =
                            book @@ [download_name |->
                                       DownloadName(from_date_str, to_date_str,
                                                    status)]]
            /\ UNCHANGED <<users, apps, session, now, pending>>

\* The department names of the model in the order sorted() gives str: by
\* code point, capitals before small letters.
DepartmentOrder == <<<<"Cardiology">>, <<"Unspecified">>, <<"radiology">>>>

\* sorted(S) for a set of department names
sorted(S) ==
    LET Kept(n) == Cardinality({k \in 1..n : DepartmentOrder[k] \in S})
    IN  [j \in 1..Cardinality(S) |->
            DepartmentOrder[CHOOSE k \in 1..Len(DepartmentOrder) :
                              DepartmentOrder[k] \in S /\ Kept(k) = j]]

\* The keys of the answer of api_hr_department_stats and the status each
\* counts.
StatsKeys ==
    [applied |-> "Applied", interviewed |-> "Interviewed", selected |-> "Selected",
     rejected |-> "Rejected", onhold |-> "OnHold", offered |-> "Offered"]

\* r[0] or "Unspecified"
DepartmentLabel(department) == OrElse(department, <<"Unspecified">>)

\* Application.query.filter_by(department=d, status=status).count()
CountBy(d, status) ==
    Cardinality({i \in 1..Len(apps) :
                    apps[i].department = d /\ apps[i].status = status})

\* api_hr_department_stats
DepartmentStats(c) ==
    LET denied == login_required(c, "HR")
        departments ==
            sorted({DepartmentLabel(apps[i].department) : i \in 1..Len(apps)})
        data ==
            [departments |-> departments,
             counts |-> [key \in DOMAIN StatsKeys |->
                           [k \in 1..Len(departments) |->
                              CountBy(departments[k], StatsKeys[key])]]]
    IN  /\ last' =
             IF denied # Admitted
             THEN Respond("department_stats", denied, NoId, <<>>)
             ELSE [Respond("department_stats", "jsonify", NoId, <<>>)
                     EXCEPT !.book = [status |-> "json", data |-> data]]
        /\ UNCHANGED <<users, apps, session, now, pending>>

\* datetime.utcnow() is the wall clock: its next reading is any other time.
Tick ==
    /\ now' \in Times \ {now}
    /\ UNCHANGED <<users, apps, session, last, pending>>

-----------------------------------------------------------------------------
(* Inputs *)

NoResume == [present |-> FALSE, ext |-> <<>>, size |-> 0]

ContactA == Repeat("1", MinContactLen)
ContactB == Repeat("2", MinContactLen)

BaseForm ==
    [name |-> <<"n">>, address |-> <<"x">>, contact |-> ContactA,
     email |-> <<>>, department |-> <<>>,
     academic_json |-> DefaultJson, professional_json |-> DefaultJson,
     family_json |-> DefaultJson, resume |-> NoResume]

\* Forms of the lifecycle specification: two candidates, one of them with an
\* address for mail, and a form that fails validation.
LifecycleForms ==
    {[BaseForm EXCEPT !.email = <<"a">>],
     [BaseForm EXCEPT !.contact = <<Space>> \o ContactB],
     [BaseForm EXCEPT !.name = <<Space>>]}

HodEmails == {<<"h1">>, <<"h2">>}

\* The address the next HOD registers with: the HODs register in a fixed
\* order, HOD k being the k-th row after the HR row.
NextHodEmail == IF Len(users) = 1 THEN <<"h1">> ELSE <<"h2">>
HodPassword == <<"p">>

LoginEmails == {HrEmail} \cup HodEmails
LoginPasswords == {HrPassword, HodPassword}

\* hod_id of the assign form: absent, not a number, an id of a row or not.
HodIdInputs == {<<>>, <<"x">>} \cup {<<d>> : d \in {"1", "2", "3"}}

StatusInputs == OutcomeStatuses \cup {"Applied", "Assigned", "Offered", "Joined", MissingStatus}

-----------------------------------------------------------------------------
(* The lifecycle specification *)

Init ==
    /\ users = <<HrRow>>
    /\ apps = <<>>
    /\ session = [c \in Clients |-> NoSession]
    /\ last = Respond("start", "", NoId, <<>>)
    /\ now = 0
    /\ pending = [w \in Workers |-> Idle]

\* The table user holds MaxUsers rows at most.
RoomFor(email_raw) ==
    FindUserByEmail(lower(strip(email_raw))) = NoId => Len(users) < MaxUsers

Accounts ==
    \/ \E e \in {HrEmail, NextHodEmail} :
          RoomFor(e) /\ Register(<<"n">>, e, HodPassword)
    \/ \E c \in Clients, e \in LoginEmails, p \in LoginPasswords : Login(c, e, p)
    \/ \E c \in Clients : Logout(c)
    \/ \E c \in Clients, h \in 1..MaxUsers : HrApproveHod(c, h)

\* A request that login_required turns away is drawn once, with the first
\* application id and one form value: the decorator answers before the
\* handler reads anything of the request.
OneOf(S) == CHOOSE x \in S : TRUE

Lifecycle(Forms, Envs, HodIds, Statuses) ==
    \/ \E f \in Forms, e1, e2 \in Envs :
          /\ ApplyCheck(f) = "insert" => Len(apps) < MaxApps
          /\ Apply(f, <<e1, e2>>)
    \/ \E c \in Clients, a \in 1..(MaxApps + 1), h \in HodIds, e \in Envs :
          /\ login_required(c, "HR") # Admitted => (a = 1 /\ h = OneOf(HodIds))
          /\ HrAssign(c, a, h, e)
    \/ \E c \in Clients, a \in 1..(MaxApps + 1), st \in Statuses, e \in Envs :
          /\ login_required(c, "HOD") # Admitted => (a = 1 /\ st = OneOf(Statuses))
          /\ HodResult(c, a, st, e)

Next ==
    \/ Accounts
    \/ Lifecycle(LifecycleForms, {MailOk}, HodIdInputs, StatusInputs)

Spec == Init /\ [][Next]_vars

\* hr_dashboard: Application.query.filter_by(status=...), as the set of ids
ListByStatus(status) == {i \in 1..Len(apps) : apps[i].status = status}

AllOk == <<MailOk, MailOk>>

-----------------------------------------------------------------------------
(* C1 *)

\* C1: a submit that passes validation, the duplicate checks and the resume
\* checks adds exactly one record, the new record has status 'Applied' and no
\* assigned HOD and is listed under 'Applied'; a record listed under 'Applied'
\* leaves that list only by a successful assign on it, and a record that has
\* never been assigned is still 'Applied'.
C1_SubmitCreatesApplied ==
    [][/\ \A f \in LifecycleForms :
            (/\ last'.op = "apply"
             /\ ApplyCheck(f) = "insert"
             /\ Apply(f, AllOk)) =>
                /\ Len(apps') = Len(apps) + 1
                /\ SubSeq(apps', 1, Len(apps)) = apps
                /\ apps'[Len(apps')].status = "Applied"
                /\ apps'[Len(apps')].assigned_hod_id = NoId
                /\ Len(apps') \in ListByStatus("Applied")'
       /\ \A i \in 1..Len(apps) :
            (apps[i].status = "Applied" /\ apps'[i].status # "Applied") =>
                /\ last'.op = "hr_assign"
                /\ last'.id = i
                /\ last'.outcome = "Assigned and HOD notified"
       /\ \A i \in 1..Len(apps') :
            apps'[i].assigned_hod_id = NoId => i \in ListByStatus("Applied")'
      ]_vars

C1_Witness ==
    /\ last.op = "apply"
    /\ last.outcome = "Application submitted."
    /\ apps # <<>>
    /\ apps[Len(apps)].status = "Applied"
    /\ apps[Len(apps)].assigned_hod_id = NoId

-----------------------------------------------------------------------------
(* C5 *)

\* C5: for a requested status among Interviewed, Rejected, Selected, OnHold,
\* hod_result from a HOD session that is not the record's current assigned HOD
\* (the record unassigned or absent, or assigned to another account) is
\* refused, changes no record and sends nothing; from the assigned HOD it
\* succeeds, and only the record's status changes, to the requested value.
C5_OutcomeOnlyByAssignedHod ==
    [][\A c \in Clients, a \in 1..(MaxApps + 1),
         st \in {"Interviewed", "Rejected", "Selected", "OnHold"} :
         (/\ last'.op = "hod_result" /\ last'.id = a
          /\ session[c].role = "HOD"
          /\ HodResult(c, a, st, MailOk)) =>
            IF a \in 1..Len(apps) /\ apps[a].assigned_hod_id = session[c].user_id
            THEN /\ apps' = [apps EXCEPT ![a].status = st]
                 /\ apps'[a].status = st
                 /\ apps'[a].assigned_hod_id = apps[a].assigned_hod_id
                 /\ last'.outcome = "Status updated and candidate notified"
            ELSE /\ apps' = apps
                 /\ last'.mails = <<>>
                 /\ last'.outcome = "Not assigned to you"
      ]_vars

\* A HOD other than the one the record is assigned to was refused.
C5_Witness ==
    /\ last.op = "hod_result"
    /\ last.outcome = "Not assigned to you"
    /\ last.id \in 1..Len(apps)
    /\ \E c \in Clients :
         /\ session[c].role = "HOD"
         /\ apps[last.id].assigned_hod_id # NoId
         /\ apps[last.id].assigned_hod_id # session[c].user_id
         /\ apps[last.id].assigned_hod_id \in 1..Len(users)
         /\ users[apps[last.id].assigned_hod_id].role = "HOD"

-----------------------------------------------------------------------------
(* C6 *)

\* C6: hod_result with a requested status outside Interviewed, Rejected,
\* Selected, OnHold changes no record and sends nothing, whoever calls; when
\* the request reaches the handler (the session has role HOD) it fails as
\* 'Invalid status', the assigned HOD included.
C6_InvalidStatusRefused ==
    [][\A c \in Clients, a \in 1..(MaxApps + 1),
         st \in StatusInputs \ {"Interviewed", "Rejected", "Selected", "OnHold"} :
         (last'.op = "hod_result" /\ last'.id = a /\ HodResult(c, a, st, MailOk)) =>
            /\ apps' = apps
            /\ last'.mails = <<>>
            /\ last'.outcome # "Status updated and candidate notified"
            /\ session[c].role = "HOD" => last'.outcome = "Invalid status"
      ]_vars

\* The assigned HOD asked for a status that is not an outcome.
C6_Witness ==
    /\ last.op = "hod_result"
    /\ last.outcome = "Invalid status"
    /\ last.id \in 1..Len(apps)
    /\ \E c \in Clients :
         /\ session[c].role = "HOD"
         /\ apps[last.id].assigned_hod_id = session[c].user_id

-----------------------------------------------------------------------------
(* C7 *)

\* The account an assign form names, NoId when it names no row of user.
NamedAccount(h) ==
    IF Truthy(h) /\ ~IntRaises(h) /\ int(h) \in 1..Len(users) THEN int(h) ELSE NoId

\* C7: assign is accepted only from a session with role HR; on success the
\* record's assigned HOD is the account named and its status is 'Assigned';
\* when the application id or the account id names no row, assign fails and
\* changes no record.
C7_AssignChecksBothIds ==
    [][\A c \in Clients, a \in 1..(MaxApps + 1), h \in HodIdInputs :
         (last'.op = "hr_assign" /\ last'.id = a /\ HrAssign(c, a, h, MailOk)) =>
            /\ last'.outcome = "Assigned and HOD notified" =>
                  /\ session[c].role = "HR"
                  /\ apps'[a].assigned_hod_id = NamedAccount(h)
                  /\ apps'[a].status = "Assigned"
            /\ (a \notin 1..Len(apps) \/ NamedAccount(h) = NoId) =>
                  /\ apps' = apps
                  /\ last'.outcome # "Assigned and HOD notified"
      ]_vars

-----------------------------------------------------------------------------
(* The notification specification: the lifecycle with a mail environment   *)
(* that may fail to render and fail to deliver, each attempt on its own.   *)

NotifyForms ==
    {[BaseForm EXCEPT !.email = <<"a">>],
     [BaseForm EXCEPT !.contact = <<Space>> \o ContactB],
     [BaseForm EXCEPT !.name = <<Space>>]}

NotifyHodIds == {<<>>, <<"2">>}

NotifyStatuses == {"Selected", "Rejected", "Offered"}

NextNotify ==
    \/ Accounts
    \/ Lifecycle(NotifyForms, MailEnv, NotifyHodIds, NotifyStatuses)

SpecNotify == Init /\ [][NextNotify]_vars

\* C8: for apply, hr_assign and hod_result, a request that passes the
\* handler's checks commits its change and ends with the handler's success
\* message whatever the template renderer and the mail transport do; no
\* notification attempt raises out of the dispatcher, and the context of a
\* rendered notification shows the status already committed.
C8_NotificationBestEffort ==
    [][/\ \A f \in NotifyForms, e1, e2 \in MailEnv :
            (/\ last'.op = "apply"
             /\ ApplyCheck(f) = "insert"
             /\ Apply(f, <<e1, e2>>)) =>
                /\ Len(apps') = Len(apps) + 1
                /\ apps'[Len(apps')].status = "Applied"
                /\ last'.outcome = "Application submitted."
                /\ Len(last'.mails) = IF Truthy(lower(strip(f.email))) THEN 2 ELSE 1
       /\ \A c \in Clients, a \in 1..(MaxApps + 1), h \in NotifyHodIds, e \in MailEnv :
            (/\ last'.op = "hr_assign" /\ last'.id = a
             /\ session[c].role = "HR" /\ a \in 1..Len(apps)
             /\ Truthy(h) /\ ~IntRaises(h)
             /\ HrAssign(c, a, h, e)) =>
                /\ apps'[a].status = "Assigned"
                /\ apps'[a].assigned_hod_id = int(h)
                /\ last'.outcome = "Assigned and HOD notified"
       /\ \A c \in Clients, a \in 1..(MaxApps + 1), e \in MailEnv,
             st \in NotifyStatuses \cap {"Interviewed", "Rejected", "Selected", "OnHold"} :
            (/\ last'.op = "hod_result" /\ last'.id = a
             /\ session[c].role = "HOD" /\ a \in 1..Len(apps)
             /\ apps[a].assigned_hod_id = session[c].user_id
             /\ HodResult(c, a, st, e)) =>
                /\ apps'[a].status = st
                /\ last'.outcome = "Status updated and candidate notified"
                /\ Len(last'.mails) = IF Truthy(apps[a].email) THEN 1 ELSE 0
       /\ \A i \in 1..Len(last'.mails) :
            /\ ~last'.mails[i].raised
            /\ (/\ last'.op \in {"hr_assign", "hod_result"}
                /\ last'.mails[i].html.template # "fallback") =>
                  /\ last'.mails[i].html.ctx.app_id = last'.id
                  /\ last'.mails[i].html.ctx.status = apps'[last'.id].status
      ]_vars

\* An outcome was recorded and kept although the template failed to render
\* and the delivery failed.
C8_Witness ==
    /\ last.op = "hod_result"
    /\ last.outcome = "Status updated and candidate notified"
    /\ Len(last.mails) = 1
    /\ last.mails[1].html.template = "fallback"
    /\ ~last.mails[1].sent
    /\ apps[last.id].status \in {"Selected", "Rejected"}

-----------------------------------------------------------------------------
(* The submission specification: apply alone, one request at a time, on    *)
(* raw form values.                                                        *)

\* Name and address: both given (with blanks around them), or one of them
\* blank.
SubmitNameAddress ==
    {<<(<<Space, "n">>), (<<"x", Space>>)>>,
     <<(<<Space>>), (<<"x">>)>>,
     <<(<<"n">>), (<<>>)>>}

\* Nine digits; ten digits; the same ten digits written with a dash and
\* blanks; nine digits and a dash; ten Arabic-Indic digits.
SubmitContacts ==
    {Repeat("1", MinContactLen - 1),
     ContactA,
     <<Space>> \o SubSeq(ContactA, 1, 5) \o <<"-">> \o SubSeq(ContactA, 6, MinContactLen),
     Repeat("2", MinContactLen - 1) \o <<"-">>,
     Repeat("U+0663", MinContactLen)}

SubmitEmails == {<<>>, <<"a">>, <<Space, "A">>}

SubmitResumes ==
    {[present |-> TRUE, ext |-> <<".PDF">>, size |-> MAX_FILE_SIZE],
     [present |-> TRUE, ext |-> <<".pdf">>, size |-> MAX_FILE_SIZE + 1],
     [present |-> TRUE, ext |-> <<".exe">>, size |-> 1]}

\* Every name/address case with every contact and address for mail, and every
\* resume with the contacts that pass validation.
SubmitForms ==
    {[BaseForm EXCEPT !.name = na[1], !.address = na[2], !.contact = ct,
                      !.email = em] :
        na \in SubmitNameAddress, ct \in SubmitContacts, em \in SubmitEmails}
    \cup
    {[BaseForm EXCEPT !.contact = ct, !.email = em, !.resume = r] :
        ct \in {ContactA, Repeat("U+0663", MinContactLen)},
        em \in {<<>>, <<"a">>}, r \in SubmitResumes}

NextSubmit == \E f \in SubmitForms : Apply(f, AllOk)

SpecSubmit == Init /\ [][NextSubmit]_vars

\* What a submitted form carries once normalised, stated on the form alone.
DigitCount(text) == Cardinality({k \in 1..Len(text) : text[k] \in DigitChars})

DigitsOf(text) ==
    LET RECURSIVE Keep(_)
        Keep(t) ==
            IF t = <<>> THEN <<>>
            ELSE IF Head(t) \in DigitChars THEN <<Head(t)>> \o Keep(Tail(t))
            ELSE Keep(Tail(t))
    IN  Keep(text)

Blank(text) == \A k \in 1..Len(text) : text[k] = Space

PassesValidation(f) ==
    ~Blank(f.name) /\ ~Blank(f.address) /\ DigitCount(f.contact) >= 10

ContactPresent(f) == \E i \in 1..Len(apps) : apps[i].contact = DigitsOf(f.contact)

EmailPresent(f) ==
    /\ ~Blank(f.email)
    /\ \E i \in 1..Len(apps) : apps[i].email = lower(strip(f.email))

DuplicateOutcomes ==
    {"You already applied with this email.",
     "You already applied with this contact number."}

UniqueContactAndEmail(rows) ==
    \A i, j \in 1..Len(rows) :
        i # j =>
            /\ rows[i].contact # rows[j].contact
            /\ rows[i].email # None => rows[i].email # rows[j].email

\* C2 as stated: after any sequence of submits no two records share a
\* contact or a non-null email, and a submit whose normalised contact or
\* non-empty email is already present fails as a duplicate, whatever its
\* other fields are, and leaves the records unchanged.
C2_DuplicateWhateverOtherFields ==
    [][/\ UniqueContactAndEmail(apps')
       /\ \A f \in SubmitForms :
            (/\ last'.op = "apply"
             /\ ContactPresent(f) \/ EmailPresent(f)
             /\ Apply(f, AllOk)) =>
                /\ last'.outcome \in DuplicateOutcomes
                /\ apps' = apps
      ]_vars

\* C2 as amended: the same, for a submit that passes field validation; a
\* submit that fails validation is rejected as such, also without change.
C2_DuplicateAfterValidation ==
    [][/\ UniqueContactAndEmail(apps')
       /\ \A f \in SubmitForms :
            (/\ last'.op = "apply"
             /\ ContactPresent(f) \/ EmailPresent(f)
             /\ Apply(f, AllOk)) =>
                /\ apps' = apps
                /\ PassesValidation(f) => last'.outcome \in DuplicateOutcomes
                /\ ~PassesValidation(f) =>
                      last'.outcome =
                         "Name, address and valid 10-digit contact are required."
      ]_vars

\* A second submit with a contact already stored was refused as a duplicate.
C2_Witness ==
    /\ last.op = "apply"
    /\ last.outcome = "You already applied with this contact number."
    /\ apps # <<>>

\* C3: every stored record has a non-empty name, a non-empty address and a
\* contact of at least 10 characters, all of them digits; a submit whose name
\* or address is empty once stripped, or whose contact holds fewer than 10
\* digits, is rejected, adds no record and attempts no notification.
C3_ValidatedFields ==
    [][/\ \A i \in 1..Len(apps') :
            /\ apps'[i].name # <<>> /\ apps'[i].name # None
            /\ apps'[i].address # <<>> /\ apps'[i].address # None
            /\ Len(apps'[i].contact) >= 10
            /\ \A k \in 1..Len(apps'[i].contact) : apps'[i].contact[k] \in DigitChars
       /\ \A f \in SubmitForms :
            (/\ last'.op = "apply"
             /\ ~PassesValidation(f)
             /\ Apply(f, AllOk)) =>
                /\ apps' = apps
                /\ last'.mails = <<>>
                /\ last'.outcome =
                      "Name, address and valid 10-digit contact are required."
      ]_vars

\* A submit was rejected by validation while a valid record is stored.
C3_Witness ==
    /\ last.op = "apply"
    /\ last.outcome = "Name, address and valid 10-digit contact are required."
    /\ last.mails = <<>>
    /\ apps # <<>>

-----------------------------------------------------------------------------
(* The account specification: register, login, logout, approve and reset   *)
(* on raw form values.  The database may hold a UnitHead row when the      *)
(* process starts: no handler creates one, login routes one to its         *)
(* dashboard, and the column default (and add_is_active.py) leave its      *)
(* is_active false.                                                        *)

UnitHeadEmail == <<"unit@accordhospitals.com">>
UnitHeadPassword == <<"u">>

UnitHeadRow(active) ==
    [id |-> 2, name |-> <<"Unit Head">>, email |-> UnitHeadEmail,
     password_hash |-> generate_password_hash(UnitHeadPassword),
     role |-> "UnitHead", is_active |-> active]

InitAuth ==
    /\ users \in {<<HrRow>>, <<HrRow, UnitHeadRow(FALSE)>>, <<HrRow, UnitHeadRow(TRUE)>>}
    /\ apps = <<>>
    /\ session = [c \in Clients |-> NoSession]
    /\ last = Respond("start", "", NoId, <<>>)
    /\ now = 0
    /\ pending = [w \in Workers |-> Idle]

AuthRegisterEmails == {<<>>, <<Space, "H">>, <<"b">>}
AuthRegisterPasswords == {<<Space>>, <<"p", Space>>}

AuthLoginEmails == {HrEmail, UnitHeadEmail, <<"h", Space>>, <<"B">>}
AuthLoginPasswords == {HrPassword, UnitHeadPassword, <<Space, "p">>, <<"q">>}

AuthResetEmails == {<<"H">>, HrEmail}
AuthResetPasswords == {<<>>, <<"q">>}

NextAuth ==
    \/ \E e \in AuthRegisterEmails, p \in AuthRegisterPasswords :
          RoomFor(e) /\ Register(<<"n">>, e, p)
    \/ \E c \in Clients, e \in AuthLoginEmails, p \in AuthLoginPasswords :
          Login(c, e, p)
    \/ \E c \in Clients : Logout(c)
    \/ \E c \in Clients, h \in 1..(MaxUsers + 1) : HrApproveHod(c, h)
    \/ \E c \in Clients, e \in AuthResetEmails, p \in AuthResetPasswords,
          env \in MailEnv :
          HrResetPassword(c, e, p, env)

SpecAuth == InitAuth /\ [][NextAuth]_vars

\* The account whose address and current password a login form carries, NoId
\* when it carries those of no account.
AccountOf(e, p) ==
    IF \E i \in 1..Len(users) :
          /\ users[i].email = lower(strip(e))
          /\ check_password_hash(users[i].password_hash, strip(p))
    THEN CHOOSE i \in 1..Len(users) :
          /\ users[i].email = lower(strip(e))
          /\ check_password_hash(users[i].password_hash, strip(p))
    ELSE NoId

\* C4: register creates the account with role HOD and is_active false; login
\* with the correct credentials of a HOD account that is not active fails as
\* pending approval and leaves the session as it was; is_active changes only
\* to true and only by hr_approve_hod from an HR session; login with the
\* correct credentials of an active HOD, or of an HR or UnitHead account
\* whatever its is_active, succeeds and opens that account's session; no
\* session with role HOD belongs to an account that is not active.
C4_ActivationGate ==
    [][/\ (last'.op = "register" /\ users' # users) =>
            /\ Len(users') = Len(users) + 1
            /\ SubSeq(users', 1, Len(users)) = users
            /\ users'[Len(users')].role = "HOD"
            /\ users'[Len(users')].is_active = FALSE
       /\ \A c \in Clients, e \in AuthLoginEmails, p \in AuthLoginPasswords :
            (/\ last'.op = "login"
             /\ AccountOf(e, p) # NoId
             /\ Login(c, e, p)) =>
                IF /\ users[AccountOf(e, p)].role = "HOD"
                   /\ ~users[AccountOf(e, p)].is_active
                THEN /\ last'.outcome = "HOD account pending HR approval"
                     /\ session' = session
                ELSE /\ last'.outcome = "logged_in"
                     /\ session'[c].user_id = AccountOf(e, p)
                     /\ session'[c].role = users[AccountOf(e, p)].role
       /\ \A i \in 1..Len(users) :
            users'[i].is_active # users[i].is_active =>
                /\ users'[i].is_active
                /\ users[i].role = "HOD"
                /\ last'.op = "hr_approve_hod"
                /\ last'.id = i
                /\ \E c \in Clients : session[c].role = "HR"
       /\ \A c \in Clients :
            session'[c].role = "HOD" => users'[session'[c].user_id].is_active
      ]_vars

\* A registered HOD, approved by HR since, has logged in.
C4_Witness ==
    /\ last.op = "login"
    /\ last.outcome = "logged_in"
    /\ \E c \in Clients :
         /\ session[c].role = "HOD"
         /\ users[session[c].user_id].role = "HOD"
         /\ users[session[c].user_id].is_active

-----------------------------------------------------------------------------
(* The export specification: submissions with sub-record payloads of every *)
(* shape, and export_excel by HR.                                          *)

\* Two flat records, their values numbers: the first and the second entry of
\* a collection, each with some of the keys the sheets read.
Entry1 == JDict([k \in {"sr", "qualification", "company", "name"} |-> 1])
Entry2 == JDict([k \in {"sr", "year", "tenure", "age"} |-> 2])

\* A list of two records, a list of one, the empty list.
RecordListTexts ==
    {JsonText(JList(<<Entry1, Entry2>>)), JsonText(JList(<<Entry1>>)), DefaultJson}

\* Text json.loads rejects; a number, a non-empty string, null, true; a list
\* whose items are not records, or not all of them.
MalformedTexts ==
    {GarbageText,
     JsonText(JScalar("num")), JsonText(JStr(<<"a", "b">>)),
     JsonText(JScalar("null")), JsonText(JScalar("bool")),
     JsonText(JList(<<JScalar("num")>>)),
     JsonText(JList(<<Entry1, JStr(<<"a">>)>>))}

\* The empty text, the empty string, a record that is not inside a list.
OtherTexts == {EmptyText, JsonText(JStr(<<>>)), JsonText(Entry1)}

PayloadTexts == RecordListTexts \cup MalformedTexts \cup OtherTexts

TwoEntries == JsonText(JList(<<Entry1, Entry2>>))

\* The three payloads of a form: two entries of each kind, or one kind with
\* any payload and two entries of the other kinds.
PayloadTriples ==
    {<<x, TwoEntries, TwoEntries>> : x \in PayloadTexts}
    \cup {<<TwoEntries, x, TwoEntries>> : x \in PayloadTexts}
    \cup {<<TwoEntries, TwoEntries, x>> : x \in PayloadTexts}

OneEntry == JsonText(JList(<<Entry1>>))

\* One candidate with every triple; another with lists of records only.
ExportForms ==
    {[BaseForm EXCEPT !.academic_json = t[1], !.professional_json = t[2],
                      !.family_json = t[3]] :
        t \in PayloadTriples}
    \cup
    {[BaseForm EXCEPT !.contact = ContactB, !.academic_json = t[1],
                      !.professional_json = t[2], !.family_json = t[3]] :
        t \in {<<TwoEntries, TwoEntries, TwoEntries>>,
                <<OneEntry, DefaultJson, TwoEntries>>}}

NextExport ==
    \/ \E c \in Clients, p \in {HrPassword, HodPassword} : Login(c, HrEmail, p)
    \/ \E f \in ExportForms : Apply(f, AllOk)
    \/ \E c \in Clients : ExportExcel(c)

SpecExport == Init /\ [][NextExport]_vars

\* The payload is the text of a list of records.
IsRecordList(text) ==
    /\ text.text = "json"
    /\ text.doc.t = "list"
    /\ \A k \in 1..Len(text.doc.items) : text.doc.items[k].t = "dict"

EntriesOf(text) == IF IsRecordList(text) THEN Len(text.doc.items) ELSE 0

SheetKinds == {"Academic", "Professional", "Family"}

PayloadOf(a, kind) ==
    CASE kind = "Academic" -> a.academic_json
      [] kind = "Professional" -> a.professional_json
      [] kind = "Family" -> a.family_json

\* The rows of a sheet that carry the id given as their first cell.
RowsOf(sheet, id) == Cardinality({k \in 1..Len(sheet) : sheet[k][1] = id})

PrimaryRowsOf(sheet, id) == Cardinality({k \in 1..Len(sheet) : sheet[k].id = id})

\* C9: when every stored payload is the text of a list of records, the
\* export is produced, sheet Applications has exactly one row per record,
\* and each secondary sheet has, for every record, as many rows carrying that
\* record's id as the record has entries of that kind, and no other row.
C9_ExportRowCounts ==
    (/\ last.op = "export_excel"
     /\ \E c \in Clients : session[c].role = "HR"
     /\ \A i \in 1..Len(apps), kind \in SheetKinds : IsRecordList(PayloadOf(apps[i], kind)))
    =>
    /\ last.outcome = "send_file"
    /\ last.book.status = "saved"
    /\ Len(last.book.Applications) = Len(apps)
    /\ \A i \in 1..Len(apps) : PrimaryRowsOf(last.book.Applications, i) = 1
    /\ \A kind \in SheetKinds :
         /\ \A i \in 1..Len(apps) :
              RowsOf(last.book[kind], i) = EntriesOf(PayloadOf(apps[i], kind))
         /\ \A k \in 1..Len(last.book[kind]) :
              /\ last.book[kind][k][1] \in 1..Len(apps)
              /\ PrimaryRowsOf(last.book.Applications, last.book[kind][k][1]) = 1

\* Two records with two entries each were exported.
C9_Witness ==
    /\ last.op = "export_excel"
    /\ last.outcome = "send_file"
    /\ Len(apps) = 2
    /\ \A i \in 1..Len(apps), kind \in SheetKinds :
         PayloadOf(apps[i], kind) = TwoEntries
    /\ Len(last.book.Academic) = 4

\* C10: whatever the stored payloads are, the export by HR is produced with
\* one row of sheet Applications per record; a record whose payload of a kind
\* is malformed adds no row to that sheet, and every record whose payload is
\* a list of records adds all its rows.
C10_MalformedPayloadIsEmpty ==
    (/\ last.op = "export_excel"
     /\ \E c \in Clients : session[c].role = "HR")
    =>
    /\ last.outcome = "send_file"
    /\ last.book.status = "saved"
    /\ Len(last.book.Applications) = Len(apps)
    /\ \A kind \in SheetKinds, i \in 1..Len(apps) :
         /\ PayloadOf(apps[i], kind) \in MalformedTexts =>
              RowsOf(last.book[kind], i) = 0
         /\ IsRecordList(PayloadOf(apps[i], kind)) =>
              RowsOf(last.book[kind], i) = EntriesOf(PayloadOf(apps[i], kind))

-----------------------------------------------------------------------------
(* The filtered export specification: submissions at the readings of the   *)
(* clock, assignments that change their status, and export_filtered by HR. *)

\* The candidates submit one after the other.
FilterForm ==
    [BaseForm EXCEPT !.contact = IF apps = <<>> THEN ContactA ELSE ContactB]

\* The date of day d as the request carries it, day 1 between blanks.
DateOfDay(d) ==
    IF d = 1 THEN <<Space, DateTokens[d + 1], Space>> ELSE <<DateTokens[d + 1]>>

\* from_date or to_date absent, blank, not a date.
NoDates == {<<>>, <<Space>>, <<"x">>}

\* status of the request: absent, blank, a status, a status after a blank,
\* a status in another case.
FilterStatuses ==
    {<<>>, <<Space>>, <<"Applied">>, <<Space, "Assigned">>, <<"applied">>}

\* The requests: the dates of two days and no status, all the days with
\* every status, and one date absent, blank or not a date.
FilterRequests ==
    {<<DateOfDay(d1), DateOfDay(d2), <<>>>> : d1 \in 0..MaxDay, d2 \in 0..MaxDay}
    \cup {<<DateOfDay(0), DateOfDay(MaxDay), s>> : s \in FilterStatuses}
    \cup {<<x, DateOfDay(0), <<>>>> : x \in NoDates}
    \cup {<<DateOfDay(1), x, <<"Applied">>>> : x \in NoDates}

\* HR logs in first; the clock moves and the candidates submit after that.
NextFilter ==
    \/ \E c \in Clients, p \in {HrPassword, HodPassword} : Login(c, HrEmail, p)
    \/ (\E c \in Clients : session[c].role = "HR") /\ Tick
    \/ (\E c \in Clients : session[c].role = "HR") /\ Apply(FilterForm, AllOk)
    \/ \E c \in Clients : HrAssign(c, 1, <<"1">>, MailOk)
    \/ \E c \in Clients, r \in FilterRequests :
          /\ login_required(c, "HR") # Admitted => r = OneOf(FilterRequests)
          /\ ExportFiltered(c, r[1], r[2], r[3])

SpecFilter == Init /\ [][NextFilter]_vars

\* The text holds nothing but the date of day d and blanks around it.
NamesDay(text, d) ==
    /\ \E k \in 1..Len(text) : text[k] = DateTokens[d + 1]
    /\ \A k \in 1..Len(text) : text[k] \in {Space, DateTokens[d + 1]}
    /\ Cardinality({k \in 1..Len(text) : text[k] # Space}) = 1

\* The day a time falls on.
DayOf(t) == t \div SecondsPerDay

\* The status the text names once the blanks around it are dropped.
NamesStatus(text, st) ==
    /\ Cardinality({k \in 1..Len(text) : text[k] # Space}) = 1
    /\ \E k \in 1..Len(text) : text[k] = st

\* The ids of the rows of sheet Applications, in the order of the sheet.
ExportedIds(book) == [k \in 1..Len(book.Applications) |-> book.Applications[k].id]

\* C11: a workbook export_filtered sends, named for the dates of days d1 and
\* d2, holds in sheet Applications, once each and oldest first, exactly the
\* records submitted on a day from d1 to d2 (any time of day d2 included)
\* that have the status the name carries when it carries one (the name is
\* made of the dates and the status of the request, blanks dropped); and a
\* request of HR is answered otherwise than with a workbook only when it
\* does not name two days, and with from_date or to_date absent or blank by
\* the message that both dates are to be selected.
C11_FilteredExport ==
    /\ [](/\ last.op = "export_filtered"
          /\ last.outcome = "send_file"
          =>
          /\ last.book.status = "saved"
          /\ \E d1, d2 \in 0..MaxDay :
                /\ NamesDay(last.book.download_name[1], d1)
                /\ NamesDay(last.book.download_name[2], d2)
                /\ LET s == last.book.download_name[3]
                       wanted ==
                         {i \in 1..Len(apps) :
                             /\ DayOf(apps[i].applied_at) \in d1..d2
                             /\ s # <<>> => NamesStatus(s, apps[i].status)}
                       ids == ExportedIds(last.book)
                   IN  /\ Len(ids) = Cardinality(wanted)
                       /\ {ids[k] : k \in 1..Len(ids)} = wanted
                       /\ \A k \in 1..(Len(ids) - 1) :
                             apps[ids[k]].applied_at <= apps[ids[k + 1]].applied_at)
    /\ [][\A c \in Clients, r \in FilterRequests :
            (/\ last'.op = "export_filtered"
             /\ last'.outcome # "send_file"
             /\ session[c].role = "HR"
             /\ ExportFiltered(c, r[1], r[2], r[3])) =>
            /\ ~\E d1, d2 \in 0..MaxDay : NamesDay(r[1], d1) /\ NamesDay(r[2], d2)
            /\ (Blank(r[1]) \/ Blank(r[2])) =>
                  /\ last'.outcome = "Please select From and To dates."
                  /\ last'.book = NoBook
         ]_vars

\* An export of two records submitted on different days took in the one
\* submitted in the last second of its day and lists the record submitted
\* second, which bears the earlier time, first.
C11_Witness ==
    /\ last.op = "export_filtered"
    /\ last.outcome = "send_file"
    /\ Len(apps) = 2
    /\ ExportedIds(last.book) = <<2, 1>>
    /\ DayOf(apps[2].applied_at) < DayOf(apps[1].applied_at)
    /\ apps[1].applied_at % SecondsPerDay = SecondsPerDay - 1

-----------------------------------------------------------------------------
(* The statistics specification: submissions for departments, named or    *)
(* not, an assignment, and api_hr_department_stats by HR.                  *)

\* department of the form: absent, blank, a name, the name 'Unspecified'.
StatsDepartments ==
    {<<>>, <<Space>>, <<"Cardiology">>, <<Space, "radiology">>, <<"Unspecified">>}

StatsForms ==
    {[BaseForm EXCEPT !.contact = k, !.department = d] :
        k \in {ContactA, ContactB}, d \in StatsDepartments}

NextStats ==
    \/ \E c \in Clients, p \in {HrPassword, HodPassword} : Login(c, HrEmail, p)
    \/ \E f \in StatsForms : Apply(f, AllOk)
    \/ \E c \in Clients : HrAssign(c, 1, <<"1">>, MailOk)
    \/ \E c \in Clients : DepartmentStats(c)

SpecStats == Init /\ [][NextStats]_vars

\* The department a record is reported under.
ReportedUnder(a) == IF a.department = <<>> THEN <<"Unspecified">> ELSE a.department

\* The count the answer gives for a department and a key, 0 when the
\* department is not in the answer.
Reported(data, d, key) ==
    IF \E k \in 1..Len(data.departments) : data.departments[k] = d
    THEN data.counts[key][CHOOSE k \in 1..Len(data.departments) :
                            data.departments[k] = d]
    ELSE 0

RECURSIVE SumOf(_)
SumOf(seq) == IF seq = <<>> THEN 0 ELSE Head(seq) + SumOf(Tail(seq))

\* C12: the answer of api_hr_department_stats to HR lists every department
\* a record is reported under (a record without department under
\* 'Unspecified') once, gives for each and for every status it reports the
\* number of records reported under that department with that status, and
\* so for every status it reports counts that add up to the number of
\* records with that status.
C12_DepartmentStats ==
    (/\ last.op = "department_stats"
     /\ last.outcome = "jsonify")
    =>
    LET data == last.book.data
        occurring == {ReportedUnder(apps[i]) : i \in 1..Len(apps)}
    IN  /\ {data.departments[k] : k \in 1..Len(data.departments)} = occurring
        /\ Len(data.departments) = Cardinality(occurring)
        /\ \A key \in DOMAIN StatsKeys :
             /\ \A d \in occurring :
                  Reported(data, d, key) =
                     Cardinality({i \in 1..Len(apps) :
                                     /\ ReportedUnder(apps[i]) = d
                                     /\ apps[i].status = StatsKeys[key]})
             /\ SumOf(data.counts[key]) =
                  Cardinality({i \in 1..Len(apps) : apps[i].status = StatsKeys[key]})

-----------------------------------------------------------------------------
(* The concurrent submission specification: two workers handle requests to *)
(* apply, each step of a worker between steps of the other.                *)

\* Two candidates; the first also with the contact written another way, and
\* with an address for mail.
RaceForms ==
    {BaseForm,
     [BaseForm EXCEPT !.contact = <<Space, "-">> \o ContactA, !.email = <<"a">>],
     [BaseForm EXCEPT !.contact = ContactB, !.email = <<"A">>]}

NextRace ==
    \/ \E w \in Workers, f \in RaceForms : ApplyChecks(w, f)
    \/ \E w \in Workers : ApplyInsert(w, AllOk)

SpecRace == Init /\ [][NextRace]_vars

\* C13: the insert of a submission that has passed the checks adds its
\* record whatever the table holds by then, a record with the same contact
\* included: nothing between the checks and the insert, and nothing in the
\* table, keeps a second record with that contact out.
C13_InsertAfterChecksUnguarded ==
    [][\A w \in Workers :
          (/\ pending[w] # Idle
           /\ pending'[w] = Idle) =>
          /\ Len(apps') = Len(apps) + 1
          /\ apps'[Len(apps')].contact = DigitsOf(pending[w].form.contact)
          /\ \A i \in 1..Len(apps) : apps'[i] = apps[i]
          /\ last'.outcome = "Application submitted."
      ]_vars

\* Two records share one contact: both submissions passed the checks before
\* either was inserted.
C13_Witness ==
    \E i, j \in 1..Len(apps) :
        /\ i < j
        /\ apps[i].contact = apps[j].contact

-----------------------------------------------------------------------------
(* The lifecycle of a record, under the lifecycle specification *)

\* The statuses a record is ever found in.
ReachedStatuses == {"Applied", "Assigned"} \cup OutcomeStatuses

\* C14: every record's status is one of Applied, Assigned, Interviewed,
\* Rejected, Selected, OnHold (never Offered or Joined), no step removes a
\* record, and a step changes nothing of a record but its status and its
\* assigned HOD.
C14_StatusesAndMutableFields ==
    /\ [](\A i \in 1..Len(apps) : apps[i].status \in ReachedStatuses)
    /\ [][/\ Len(apps') >= Len(apps)
          /\ \A i \in 1..Len(apps) :
                [apps'[i] EXCEPT !.status = apps[i].status,
                                 !.assigned_hod_id = apps[i].assigned_hod_id]
                = apps[i]
      ]_vars

\* A request to hod_result by the assigned HOD, on a record that had an
\* outcome, was refused for its status and left the outcome in place.
C14_Witness ==
    /\ last.op = "hod_result"
    /\ last.outcome = "Invalid status"
    /\ last.id \in 1..Len(apps)
    /\ last.was \in OutcomeStatuses
    /\ apps[last.id].status = last.was
    /\ \E c \in Clients : apps[last.id].assigned_hod_id = session[c].user_id

\* C15: the assigned HOD of every record is absent or the id of a row of
\* user whose role is HOD.
C15_AssignedHodIsHodAccount ==
    \A i \in 1..Len(apps) :
        \/ apps[i].assigned_hod_id = NoId
        \/ /\ apps[i].assigned_hod_id \in 1..Len(users)
           /\ users[apps[i].assigned_hod_id].role = "HOD"

\* C16: a record with an outcome status has an assigned HOD, a record with
\* status 'Applied' has none, and no step takes a record from 'Applied' to
\* any status but 'Assigned'.
C16_OutcomeOnlyAfterAssign ==
    /\ [](\A i \in 1..Len(apps) :
            /\ apps[i].status \in OutcomeStatuses => apps[i].assigned_hod_id # NoId
            /\ apps[i].status = "Applied" => apps[i].assigned_hod_id = NoId)
    /\ [][\A i \in 1..Len(apps) :
            apps[i].status = "Applied" => apps'[i].status \in {"Applied", "Assigned"}
      ]_vars

\* The HOD a record is assigned to recorded an outcome on it while its
\* status was 'Assigned'.
C16_Witness ==
    /\ last.op = "hod_result"
    /\ last.outcome = "Status updated and candidate notified"
    /\ last.was = "Assigned"
    /\ apps[last.id].status \in OutcomeStatuses
    /\ apps[last.id].assigned_hod_id \in 1..Len(users)
    /\ users[apps[last.id].assigned_hod_id].role = "HOD"

\* C17: whatever the status of a record, hr_assign by HR with the id of the
\* record and a number as hod_id succeeds, sets the status to 'Assigned' and
\* the assigned HOD to that number; and hod_result by the HOD the record is
\* assigned to, with one of the four outcomes, succeeds and sets the status
\* to that outcome.
C17_NoGuardOnCurrentStatus ==
    [][/\ \A c \in Clients, a \in 1..Len(apps), h \in HodIdInputs :
            (/\ last'.op = "hr_assign"
             /\ last'.id = a
             /\ session[c].role = "HR"
             /\ Truthy(h) /\ ~IntRaises(h)
             /\ HrAssign(c, a, h, MailOk)) =>
            /\ last'.outcome = "Assigned and HOD notified"
            /\ apps'[a].status = "Assigned"
            /\ apps'[a].assigned_hod_id = int(h)
       /\ \A c \in Clients, a \in 1..Len(apps), st \in OutcomeStatuses :
            (/\ last'.op = "hod_result"
             /\ last'.id = a
             /\ session[c].role = "HOD"
             /\ session[c].user_id = apps[a].assigned_hod_id
             /\ HodResult(c, a, st, MailOk)) =>
            /\ last'.outcome = "Status updated and candidate notified"
            /\ apps'[a].status = st
            /\ apps'[a].assigned_hod_id = apps[a].assigned_hod_id
      ]_vars

\* An assign on a record that had an outcome succeeded: the outcome is gone,
\* the record is 'Assigned' again, to another HOD than the one who can have
\* recorded it.
C17_Witness ==
    /\ last.op = "hr_assign"
    /\ last.outcome = "Assigned and HOD notified"
    /\ last.was \in OutcomeStatuses
    /\ apps[last.id].status = "Assigned"
    /\ \E h \in 1..Len(users) :
         /\ users[h].role = "HOD"
         /\ users[h].is_active
         /\ h # apps[last.id].assigned_hod_id
    /\ apps[last.id].assigned_hod_id \in 1..Len(users)
    /\ users[apps[last.id].assigned_hod_id].role = "HOD"

====
